---- MODULE Spec2Model ----
(***************************************************************************)
(* A model of the ERC-4626 vault indexer (src/indexer/src/main.rs): the    *)
(* event decoder parse_vault_event, the state reader get_vault_state, the  *)
(* select loop of run over the block and log subscriptions, and the file   *)
(* writers save_event / save_state; and of run of the vault-indexer crate  *)
(* (src/vault-indexer/crates/indexer/src/vault.rs).                        *)
(*                                                                         *)
(* Four specifications:                                                    *)
(*   Spec       the pipeline: chain, subscriptions, run, the data/ store   *)
(*   SpecFair   Spec with run kept running and a fair select!              *)
(*   SpecParse  parse_vault_event applied to one raw log drawn from a      *)
(*              bounded family of log shapes                               *)
(*   SpecVault  vault.rs: the initial state read, the log subscription     *)
(*              and the loop over its items                                *)
(***************************************************************************)
EXTENDS Integers, Sequences, FiniteSets, TLC

VARIABLES
    \* ---- the chain and the clock (environment) ----
    head,        \* number of the chain's latest block
    now,         \* wall clock, in seconds (chrono::Utc::now().timestamp())
    \* ---- the two subscriptions ----
    blockQ,      \* block notifications yielded by block_stream, not yet taken
    logQ,        \* log notifications yielded by event_stream, not yet taken
    blockOpen,   \* "none" (not subscribed), "open", "closed" (stream ended)
    logOpen,
    nextId,      \* notifications delivered so far + 1 (arrival stamp)
    \* ---- run ----
    pc,          \* position of run
    cur,         \* the work item being processed (NoItem at the select)
    disabled,    \* branches of the current select! whose pattern failed
    blk,         \* local `block`, and get_vault_state's total_assets so far
    state,       \* local `state`: the VaultState read, to be saved
    event,       \* local `event`: the VaultEvent decoded, to be saved
                 \* (each None until assigned, then Some of its record)
    \* ---- the store: directory data/ ----
    files,       \* file name -> contents
    \* ---- history of run, for stating the claims ----
    taken,       \* arrival stamps of the work items, in the order run took them
    finished,    \* arrival stamps of the work items whose handler body ended
    failedReads, \* arrival stamps of the block items whose state read failed
    cursor,      \* highest block number whose block notification was processed
    \* ---- SpecParse ----
    plog,        \* the raw log handed to parse_vault_event
    ptime,       \* the timestamp handed to it
    pres         \* its outcome, or Pending

vars == <<head, now, blockQ, logQ, blockOpen, logOpen, nextId, pc, cur, disabled,
          blk, state, event, files, taken, finished, failedReads, cursor, plog, ptime, pres>>

pipeVars == <<head, now, blockQ, logQ, blockOpen, logOpen, nextId, pc, cur, disabled,
              blk, state, event, files, taken, finished, failedReads, cursor>>

parseVars == <<plog, ptime, pres>>

----------------------------------------------------------------------------
(* Bounds of the model *)

\* blocks the chain mines
MaxBlock == 2
\* seconds the wall clock advances
MaxTime == 1
\* notifications (blocks and logs together) the two streams deliver
MaxNotifs == 2
\* topics of a raw log in SpecParse
MaxTopics == 4

----------------------------------------------------------------------------
(* Bytes, words, Option *)

None == <<"None">>

Some(x) == <<"Some", x>>

IsSome(o) == o[1] = "Some"

Unwrap(o) == o[2]

Repeat(b, n) == [i \in 1 .. n |-> b]

\* U256::from_big_endian on a slice of at most 32 bytes
from_big_endian(slice) ==
    LET value[n \in 0 .. Len(slice)] ==
            IF n = 0 THEN 0 ELSE 256 * value[n - 1] + slice[n]
    IN  value[Len(slice)]

\* ethers::utils::keccak256 on the signature strings the model hashes (the two of
\* the decoder, and Transfer as an unrelated event)
keccak256(sig) ==
    CASE sig = "Deposit(address,address,uint256,uint256)" ->
           <<220, 188, 28, 5, 36, 15, 49, 255, 58, 208, 103, 239, 30, 227, 92, 228,
             153, 119, 98, 117, 46, 58, 9, 82, 132, 117, 69, 68, 244, 199, 9, 215>>
      [] sig = "Withdraw(address,address,address,uint256,uint256)" ->
           <<251, 222, 121, 125, 32, 28, 104, 27, 145, 5, 101, 41, 17, 158, 11, 2,
             64, 124, 123, 185, 106, 74, 44, 117, 192, 31, 201, 102, 114, 50, 200, 219>>
      [] sig = "Transfer(address,address,uint256)" ->
           <<221, 242, 82, 173, 27, 226, 200, 155, 105, 194, 176, 104, 252, 55, 141, 170,
             149, 43, 167, 241, 99, 196, 161, 22, 40, 245, 90, 77, 245, 35, 179, 239>>

deposit_sig == "Deposit(address,address,uint256,uint256)"

withdraw_sig == "Withdraw(address,address,address,uint256,uint256)"

\* format!("{:?}", h) of an H256: the hex digits after "0x"
FormatDebug(h) == <<"0x", h>>

----------------------------------------------------------------------------
(* parse_vault_event *)

OkNone == [tag |-> "OkNone"]

OkSome(e) == [tag |-> "OkSome", event |-> e]

Panic(why) == [tag |-> "Panic", why |-> why]

VaultEvent(ty, log, sender, receiver, owner, data, timestamp) ==
    [event_type       |-> ty,
     block_number     |-> Unwrap(log.block_number),
     transaction_hash |-> FormatDebug(Unwrap(log.transaction_hash)),
     sender           |-> sender,
     receiver         |-> Some(receiver),
     owner            |-> Some(owner),
     assets           |-> from_big_endian(SubSeq(data, 1, 32)),
     shares           |-> from_big_endian(SubSeq(data, 33, Len(data))),
     timestamp        |-> timestamp]

\* mutant of TopicAddress: the address is taken from the first 20 bytes of
\* the topic (&topics[i][..20]) instead of the last 20
TopicAddressHigh(topics, i) == SubSeq(topics[i + 1], 1, 20)

\* Address::from_slice(&topics[i][12..]), i counted from 0 as in the source
TopicAddress(topics, i) == SubSeq(topics[i + 1], 13, 32)

\* the two slicings of log.data and the two unwraps, in the order the arm runs
\* them; the first that fails panics
DecodeTail(ty, log, sender, receiver, owner, timestamp) ==
    LET data == log.data IN
    IF Len(data) < 32 THEN Panic("data[..32]: range end out of bounds")
    ELSE IF Len(data) - 32 > 32 THEN Panic("from_big_endian: slice longer than 32 bytes")
    ELSE IF ~IsSome(log.block_number) THEN Panic("block_number.unwrap() on None")
    ELSE IF ~IsSome(log.transaction_hash) THEN Panic("transaction_hash.unwrap() on None")
    ELSE OkSome(VaultEvent(ty, log, sender, receiver, owner, data, timestamp))

\* mutant of DepositArm: the arm assumes the four topics of a Withdraw log and
\* takes the owner from topics[3]
DepositArmFixedCount(log, timestamp) ==
    LET topics == log.topics IN
    IF Len(topics) < 2 THEN Panic("topics[1]: index out of bounds")
    ELSE IF Len(topics) < 3 THEN Panic("topics[2]: index out of bounds")
    ELSE IF Len(topics) < 4 THEN Panic("topics[3]: index out of bounds")
    ELSE DecodeTail("Deposit", log, TopicAddress(topics, 1),
                    TopicAddress(topics, 3), TopicAddress(topics, 3), timestamp)

DepositArm(log, timestamp) ==
    LET topics == log.topics IN
    IF Len(topics) < 2 THEN Panic("topics[1]: index out of bounds")
    ELSE IF Len(topics) < 3 THEN Panic("topics[2]: index out of bounds")
    ELSE DecodeTail("Deposit", log, TopicAddress(topics, 1),
                    TopicAddress(topics, 2), TopicAddress(topics, 2), timestamp)

WithdrawArm(log, timestamp) ==
    LET topics == log.topics IN
    IF Len(topics) < 2 THEN Panic("topics[1]: index out of bounds")
    ELSE IF Len(topics) < 3 THEN Panic("topics[2]: index out of bounds")
    ELSE IF Len(topics) < 4 THEN Panic("topics[3]: index out of bounds")
    ELSE DecodeTail("Withdraw", log, TopicAddress(topics, 1),
                    TopicAddress(topics, 2), TopicAddress(topics, 3), timestamp)

\* mutant of OtherArm: a log of an unknown signature is reported as an error
OtherArmErr == [tag |-> "Err", why |-> "unknown event signature"]

\* the arm `_ => Ok(None)`
OtherArm == OkNone

parse_vault_event(log, timestamp) ==
    IF log.topics = <<>> THEN OkNone
    ELSE IF log.topics[1] = keccak256(deposit_sig) THEN DepositArm(log, timestamp)
    ELSE IF log.topics[1] = keccak256(withdraw_sig) THEN WithdrawArm(log, timestamp)
    ELSE OtherArm

----------------------------------------------------------------------------
(* The chain, as the provider answers about it *)

\* totalAssets() / totalSupply() of the vault as of block b, and b's timestamp:
\* every block changes them, as a deposit or a withdrawal in the block does
AssetsAt(b) == 1000 * b

SupplyAt(b) == 900 * b

BlockTimestamp(b) == 12 * b

\* a 32-byte big-endian word holding n < 65536
Word32(n) == Repeat(0, 30) \o <<n \div 256, n % 256>>

\* a topic holding an address: 12 bytes of padding, then the 20 address bytes
AddressTopic(pad, a) == Repeat(pad, 12) \o Repeat(a, 20)

\* the raw logs the vault's log subscription can yield in Spec
LogIds == 1 .. 4

RawLog(i) ==
    CASE i = 1 -> [topics |-> <<keccak256(deposit_sig), AddressTopic(0, 170),
                               AddressTopic(0, 187)>>,
                   data |-> Word32(100) \o Word32(95),
                   block_number |-> Some(1), transaction_hash |-> Some(1)]
      [] i = 2 -> [topics |-> <<keccak256(withdraw_sig), AddressTopic(0, 170),
                               AddressTopic(0, 187), AddressTopic(0, 204)>>,
                   data |-> Word32(50) \o Word32(47),
                   block_number |-> Some(2), transaction_hash |-> Some(2)]
      [] i = 3 -> [topics |-> <<keccak256("Transfer(address,address,uint256)"),
                               AddressTopic(0, 170), AddressTopic(0, 187)>>,
                   data |-> Word32(7),
                   block_number |-> Some(1), transaction_hash |-> Some(3)]
      [] i = 4 -> [topics |-> <<keccak256(deposit_sig), AddressTopic(0, 170)>>,
                   data |-> Word32(100) \o Word32(95),
                   block_number |-> Some(1), transaction_hash |-> Some(4)]

----------------------------------------------------------------------------
(* The store: std::fs::write into data/ *)

\* serde_json::to_string_pretty of a VaultState / VaultEvent: the fields in
\* declaration order, each with its name
state_json(s) ==
    <<<<"total_assets", s.total_assets>>, <<"total_supply", s.total_supply>>,
      <<"block_number", s.block_number>>, <<"timestamp", s.timestamp>>>>

event_json(e) ==
    <<<<"event_type", e.event_type>>, <<"block_number", e.block_number>>,
      <<"transaction_hash", e.transaction_hash>>, <<"sender", e.sender>>,
      <<"receiver", e.receiver>>, <<"owner", e.owner>>, <<"assets", e.assets>>,
      <<"shares", e.shares>>, <<"timestamp", e.timestamp>>>>

\* format!("data/event_{}.json", timestamp), format!("data/state_{}.json", timestamp)
EventFileName(timestamp) == <<"event", timestamp>>

StateFileName(timestamp) == <<"state", timestamp>>

\* std::fs::write(path, contents): creates the file or replaces its contents
fs_write(fs, path, contents) ==
    [p \in DOMAIN fs \cup {path} |-> IF p = path THEN contents ELSE fs[p]]

----------------------------------------------------------------------------
(* Initial state: the indexer is constructed, run has not subscribed yet *)

NoItem == [id |-> 0, kind |-> "none", arg |-> 0]

Terminal == {"panicked", "returned_err"}

Init ==
    /\ head = 0
    /\ now = 0
    /\ blockQ = <<>>
    /\ logQ = <<>>
    /\ blockOpen = "none"
    /\ logOpen = "none"
    /\ nextId = 1
    /\ pc = "subscribe_blocks"
    /\ cur = NoItem
    /\ disabled = {}
    /\ blk = None
    /\ state = None
    /\ event = None
    /\ files = <<>>
    /\ taken = <<>>
    /\ finished = <<>>
    /\ failedReads = {}
    /\ cursor = 0
    /\ plog = None
    /\ ptime = 0
    /\ pres = [tag |-> "Idle"]

----------------------------------------------------------------------------
(* The environment: the chain, the clock, the two subscription streams *)

\* The environment is followed for as long as the process lives.
Alive == pc \notin Terminal

envUnchanged == UNCHANGED <<pc, cur, disabled, blk, state, event, files, taken, finished,
                            failedReads, cursor, plog, ptime, pres>>

\* the chain mines a block; an open block subscription yields its header
MineBlock ==
    /\ Alive
    /\ head < MaxBlock
    /\ blockOpen = "open" => nextId <= MaxNotifs
    /\ head' = head + 1
    /\ IF blockOpen = "open"
       THEN /\ blockQ' = Append(blockQ, [id |-> nextId, arg |-> head + 1])
            /\ nextId' = nextId + 1
       ELSE UNCHANGED <<blockQ, nextId>>
    /\ UNCHANGED <<now, logQ, blockOpen, logOpen>>
    /\ envUnchanged

\* the block subscription yields a header of a height it has yielded or passed
\* before (a reorganisation at that height, a re-delivery)
RedeliverBlock ==
    /\ Alive
    /\ blockOpen = "open"
    /\ nextId <= MaxNotifs
    /\ \E n \in 1 .. head :
         blockQ' = Append(blockQ, [id |-> nextId, arg |-> n])
    /\ nextId' = nextId + 1
    /\ UNCHANGED <<head, now, logQ, blockOpen, logOpen>>
    /\ envUnchanged

\* the log subscription yields a log of the vault in a mined block; the same
\* log may be yielded again (delivery is at least once)
EmitLog ==
    /\ Alive
    /\ logOpen = "open"
    /\ nextId <= MaxNotifs
    /\ \E i \in LogIds :
         /\ Unwrap(RawLog(i).block_number) <= head
         /\ logQ' = Append(logQ, [id |-> nextId, arg |-> i])
    /\ nextId' = nextId + 1
    /\ UNCHANGED <<head, now, blockQ, blockOpen, logOpen>>
    /\ envUnchanged

\* a subscription ends: its stream yields what it holds, then None
CloseBlocks ==
    /\ Alive
    /\ blockOpen = "open"
    /\ blockOpen' = "closed"
    /\ UNCHANGED <<head, now, blockQ, logQ, logOpen, nextId>>
    /\ envUnchanged

CloseLogs ==
    /\ Alive
    /\ logOpen = "open"
    /\ logOpen' = "closed"
    /\ UNCHANGED <<head, now, blockQ, logQ, blockOpen, nextId>>
    /\ envUnchanged

\* a second passes
Tick ==
    /\ Alive
    /\ now < MaxTime
    /\ now' = now + 1
    /\ UNCHANGED <<head, blockQ, logQ, blockOpen, logOpen, nextId>>
    /\ envUnchanged

----------------------------------------------------------------------------
(* run: the two subscriptions (lines 135-141) *)

Max(a, b) == IF a >= b THEN a ELSE b

chainUnchanged == UNCHANGED <<head, now, nextId, plog, ptime, pres>>

\* `?` on an Err, in run: run returns the error to main
ReturnErr ==
    /\ pc' = "returned_err"
    /\ UNCHANGED <<cur, disabled, blk, state, event, files, taken, finished,
                   failedReads, cursor>>

\* a panic unwinds run and main
PanicNow ==
    /\ pc' = "panicked"
    /\ UNCHANGED <<cur, disabled, blk, state, event, files, taken, finished,
                   failedReads, cursor>>

\* the end of a select! branch body: the loop comes back to the select!
Finish ==
    /\ pc' = "select"
    /\ cur' = NoItem
    /\ disabled' = {}
    /\ blk' = None
    /\ state' = None
    /\ event' = None
    /\ finished' = Append(finished, cur.id)

SubscribeBlocks ==
    /\ pc = "subscribe_blocks"
    /\ \/ /\ blockOpen' = "open"
          /\ pc' = "subscribe_logs"
          /\ UNCHANGED <<cur, disabled, blk, state, event, files, taken, finished,
                         failedReads, cursor>>
       \/ /\ UNCHANGED blockOpen
          /\ ReturnErr
    /\ UNCHANGED <<blockQ, logQ, logOpen>>
    /\ chainUnchanged

SubscribeLogs ==
    /\ pc = "subscribe_logs"
    /\ \/ /\ logOpen' = "open"
          /\ pc' = "select"
          /\ UNCHANGED <<cur, disabled, blk, state, event, files, taken, finished,
                         failedReads, cursor>>
       \/ /\ UNCHANGED logOpen
          /\ ReturnErr
    /\ UNCHANGED <<blockQ, logQ, blockOpen>>
    /\ chainUnchanged

----------------------------------------------------------------------------
(* run: the select! of the loop (lines 145-148, 159) *)

\* mutant of SelectReady: the branch bodies run as spawned tasks, so the
\* select! is polled again while a body is still running
SelectReadySpawned == pc \notin Terminal \cup {"subscribe_blocks", "subscribe_logs"}

\* the select! is polled only when the loop is at its top: the body of the
\* branch taken before has run to its end
SelectReady == pc = "select"

\* Some(block) = block_stream.next()
TakeBlock ==
    /\ SelectReady
    /\ "block" \notin disabled
    /\ blockQ # <<>>
    /\ cur' = [id |-> Head(blockQ).id, kind |-> "block", arg |-> Head(blockQ).arg]
    /\ blockQ' = Tail(blockQ)
    /\ taken' = Append(taken, Head(blockQ).id)
    /\ pc' = "get_block"
    /\ disabled' = {}
    /\ UNCHANGED <<logQ, blockOpen, logOpen, blk, state, event, files, finished,
                   failedReads, cursor>>
    /\ chainUnchanged

\* mutant of TakeLog: the log subscription is made anew for every select!, so
\* the logs the old stream still held are dropped with it
TakeLogResubscribing ==
    /\ SelectReady
    /\ "log" \notin disabled
    /\ logQ # <<>>
    /\ cur' = [id |-> Head(logQ).id, kind |-> "log", arg |-> Head(logQ).arg]
    /\ logQ' = <<>>
    /\ taken' = Append(taken, Head(logQ).id)
    /\ pc' = "log_get_block"
    /\ disabled' = {}
    /\ UNCHANGED <<blockQ, blockOpen, logOpen, blk, state, event, files, finished,
                   failedReads, cursor>>
    /\ chainUnchanged

\* Some(log) = event_stream.next()
TakeLog ==
    /\ SelectReady
    /\ "log" \notin disabled
    /\ logQ # <<>>
    /\ cur' = [id |-> Head(logQ).id, kind |-> "log", arg |-> Head(logQ).arg]
    /\ logQ' = Tail(logQ)
    /\ taken' = Append(taken, Head(logQ).id)
    /\ pc' = "log_get_block"
    /\ disabled' = {}
    /\ UNCHANGED <<blockQ, blockOpen, logOpen, blk, state, event, files, finished,
                   failedReads, cursor>>
    /\ chainUnchanged

\* a stream that has ended yields None: the pattern Some(..) fails and the
\* select! disables that branch, for this select! only
BlockStreamNone ==
    /\ SelectReady
    /\ "block" \notin disabled
    /\ blockQ = <<>>
    /\ blockOpen = "closed"
    /\ disabled' = disabled \cup {"block"}
    /\ UNCHANGED <<blockQ, logQ, blockOpen, logOpen, pc, cur, blk, state, event, files,
                   taken, finished, failedReads, cursor>>
    /\ chainUnchanged

LogStreamNone ==
    /\ SelectReady
    /\ "log" \notin disabled
    /\ logQ = <<>>
    /\ logOpen = "closed"
    /\ disabled' = disabled \cup {"log"}
    /\ UNCHANGED <<blockQ, logQ, blockOpen, logOpen, pc, cur, blk, state, event, files,
                   taken, finished, failedReads, cursor>>
    /\ chainUnchanged

\* every branch is disabled and the select! has no else branch: it panics
AllBranchesDisabled ==
    /\ SelectReady
    /\ disabled = {"block", "log"}
    /\ PanicNow
    /\ UNCHANGED <<blockQ, logQ, blockOpen, logOpen>>
    /\ chainUnchanged

----------------------------------------------------------------------------
(* run: the block branch (lines 148-156) and get_vault_state (lines 54-74) *)

streamsUnchanged == UNCHANGED <<blockQ, logQ, blockOpen, logOpen>>

\* the block a contract call is evaluated at: .call() is given no block, so
\* the node evaluates it at its latest block
CallBlock(block_number) == head

\* mutant of StateReadErr: the failed read is replaced by a default VaultState
\* (total_assets and total_supply of 0) and saved
StateReadErrSavesDefault ==
    /\ failedReads' = failedReads \cup {cur.id}
    /\ pc' = "save_state"
    /\ state' = Some([total_assets |-> 0, total_supply |-> 0,
                      block_number |-> cur.arg, timestamp |-> 0])
    /\ UNCHANGED <<cur, disabled, blk, event, files, taken, finished, cursor>>

\* get_vault_state returns Err (`?` on a failed sub-query): `if let Ok(state)`
\* does not match, the branch body ends without save_state
StateReadErr ==
    /\ failedReads' = failedReads \cup {cur.id}
    /\ Finish
    /\ UNCHANGED <<files, taken, cursor>>

\* self.provider.get_block(block_number).await?.unwrap()
GetBlock ==
    /\ pc = "get_block"
    /\ \/ /\ pc' = "total_assets"
          /\ blk' = Some([timestamp |-> BlockTimestamp(cur.arg), total_assets |-> 0])
          /\ UNCHANGED <<cur, disabled, state, event, files, taken, finished,
                         failedReads, cursor>>
       \/ PanicNow        \* Ok(None): the node does not know the block
       \/ StateReadErr    \* Err: the request failed
    /\ streamsUnchanged
    /\ chainUnchanged

\* self.contract.method("totalAssets", ())?.call().await?
CallTotalAssets ==
    /\ pc = "total_assets"
    /\ \/ /\ pc' = "total_supply"
          /\ blk' = Some([Unwrap(blk) EXCEPT
                           !.total_assets = AssetsAt(CallBlock(cur.arg))])
          /\ UNCHANGED <<cur, disabled, state, event, files, taken, finished,
                         failedReads, cursor>>
       \/ StateReadErr
    /\ streamsUnchanged
    /\ chainUnchanged

\* self.contract.method("totalSupply", ())?.call().await?, then Ok(VaultState {..})
CallTotalSupply ==
    /\ pc = "total_supply"
    /\ \/ /\ pc' = "save_state"
          /\ state' = Some([total_assets |-> Unwrap(blk).total_assets,
                            total_supply |-> SupplyAt(CallBlock(cur.arg)),
                            block_number |-> cur.arg,
                            timestamp    |-> Unwrap(blk).timestamp])
          /\ UNCHANGED <<cur, disabled, blk, event, files, taken, finished,
                         failedReads, cursor>>
       \/ StateReadErr
    /\ streamsUnchanged
    /\ chainUnchanged

\* self.save_state(&state).await?
save_state ==
    /\ pc = "save_state"
    /\ \/ /\ files' = fs_write(files, StateFileName(now), state_json(Unwrap(state)))
          /\ cursor' = Max(cursor, Unwrap(state).block_number)
          /\ Finish
          /\ UNCHANGED <<taken, failedReads>>
       \/ ReturnErr       \* std::fs::write fails
    /\ streamsUnchanged
    /\ chainUnchanged

----------------------------------------------------------------------------
(* run: the log branch (lines 159-169) *)

\* self.provider.get_block(log.block_number.unwrap()).await?.unwrap()
LogGetBlock ==
    /\ pc = "log_get_block"
    /\ \/ /\ IsSome(RawLog(cur.arg).block_number)
          /\ pc' = "parse"
          /\ blk' = Some([timestamp |->
                                BlockTimestamp(Unwrap(RawLog(cur.arg).block_number)),
                           total_assets |-> 0])
          /\ UNCHANGED <<cur, disabled, state, event, files, taken, finished,
                         failedReads, cursor>>
       \/ PanicNow        \* Ok(None), or log.block_number is None
       \/ ReturnErr       \* Err: `?` returns it from run
    /\ streamsUnchanged
    /\ chainUnchanged

\* if let Some(event) = self.parse_vault_event(&log, block.timestamp.as_u64())?
ParseLog ==
    /\ pc = "parse"
    /\ LET r == parse_vault_event(RawLog(cur.arg), Unwrap(blk).timestamp) IN
         CASE r.tag = "OkSome" ->
                /\ pc' = "save_event"
                /\ event' = Some(r.event)
                /\ UNCHANGED <<cur, disabled, blk, state, files, taken, finished,
                               failedReads, cursor>>
           [] r.tag = "OkNone" ->
                /\ Finish
                /\ UNCHANGED <<files, taken, failedReads, cursor>>
           [] r.tag = "Panic" -> PanicNow
           [] OTHER -> ReturnErr
    /\ streamsUnchanged
    /\ chainUnchanged

\* self.save_event(&event).await?
save_event ==
    /\ pc = "save_event"
    /\ \/ /\ files' = fs_write(files, EventFileName(now), event_json(Unwrap(event)))
          /\ Finish
          /\ UNCHANGED <<taken, failedReads, cursor>>
       \/ ReturnErr       \* std::fs::write fails
    /\ streamsUnchanged
    /\ chainUnchanged

----------------------------------------------------------------------------
(* Spec: the pipeline *)

Env == MineBlock \/ RedeliverBlock \/ EmitLog \/ CloseBlocks \/ CloseLogs \/ Tick

Select == TakeBlock \/ TakeLog \/ BlockStreamNone \/ LogStreamNone \/ AllBranchesDisabled

get_vault_state == GetBlock \/ CallTotalAssets \/ CallTotalSupply

run == \/ SubscribeBlocks
       \/ SubscribeLogs
       \/ Select
       \/ get_vault_state
       \/ save_state
       \/ LogGetBlock
       \/ ParseLog
       \/ save_event

Next == Env \/ run

Spec == Init /\ [][Next]_vars

\* run is a task the runtime keeps polling: a step of run that stays possible
\* is taken; and tokio::select! picks at random among the branches that are
\* ready, so a branch that is ready again and again is picked
SpecFair ==
    /\ Spec
    /\ WF_vars(run)
    /\ SF_vars(TakeBlock)
    /\ SF_vars(TakeLog)

----------------------------------------------------------------------------
(* SpecParse: parse_vault_event on one raw log *)

\* topics[0] of the logs tried: the two signatures, another event's, and a
\* hash that differs from Deposit's in its last byte only
Topic0s ==
    {keccak256(deposit_sig), keccak256(withdraw_sig),
     keccak256("Transfer(address,address,uint256)"),
     [keccak256(deposit_sig) EXCEPT ![32] = 216]}

\* n topics: topic0 and n-1 address topics with padding bytes pad
TopicsOf(t0, n, pad) ==
    [k \in 1 .. n |-> IF k = 1 THEN t0 ELSE AddressTopic(pad, 153 + 17 * (k - 1))]

\* data payloads: the first len bytes of the words 100, 95, 3
DataLens == {0, 31, 32, 40, 63, 64, 65, 96}

DataOf(len) == SubSeq(Word32(100) \o Word32(95) \o Word32(3), 1, len)

ParseInputs ==
    {[topics |-> TopicsOf(t0, n, pad), data |-> DataOf(len),
      block_number |-> bn, transaction_hash |-> Some(9)] :
        t0 \in Topic0s, n \in 0 .. MaxTopics, pad \in {0, 255},
        len \in DataLens, bn \in {None, Some(7)}}

\* well-formed Deposit and Withdraw logs with other amounts in the data words
WordPairs == {<<100, 95>>, <<258, 65535>>, <<0, 1>>}

ParseInputsWords ==
    {[topics |-> TopicsOf(t0, n, pad), data |-> Word32(w[1]) \o Word32(w[2]),
      block_number |-> Some(7), transaction_hash |-> Some(9)] :
        t0 \in {keccak256(deposit_sig), keccak256(withdraw_sig)},
        n \in 3 .. MaxTopics, pad \in {0, 255}, w \in WordPairs}

InitParse ==
    /\ head = 0
    /\ now = 0
    /\ blockQ = <<>>
    /\ logQ = <<>>
    /\ blockOpen = "none"
    /\ logOpen = "none"
    /\ nextId = 1
    /\ pc = "parse_only"
    /\ cur = NoItem
    /\ disabled = {}
    /\ blk = None
    /\ state = None
    /\ event = None
    /\ files = <<>>
    /\ taken = <<>>
    /\ finished = <<>>
    /\ failedReads = {}
    /\ cursor = 0
    /\ plog \in ParseInputs \cup ParseInputsWords
    /\ ptime \in {0, 84}
    /\ pres = [tag |-> "Pending"]

ParseCall ==
    /\ pres.tag = "Pending"
    /\ pres' = parse_vault_event(plog, ptime)
    /\ UNCHANGED <<plog, ptime>>
    /\ UNCHANGED pipeVars

NextParse == ParseCall

SpecParse == InitParse /\ [][NextParse]_vars

----------------------------------------------------------------------------
(* SpecVault: run of the vault-indexer crate (vault.rs, lines 30-61) *)

\* The variables of the pipeline are used again: logQ holds the items
\* event_stream will yield, each Ok(log) with the log's block number or Err;
\* cur is the log being handled (NoItem during the initial read); blk is the
\* progress of get_vault_state; state is the last VaultState it returned.
\* blockQ, blockOpen, disabled, event, files, cursor, now stay as they start.
vaultUnused ==
    UNCHANGED <<now, blockQ, blockOpen, disabled, event, files, cursor, plog, ptime, pres>>

VaultTerminal == {"panicked", "returned_err", "returned_ok"}

\* the contract methods get_vault_state calls, in its order
VaultCalls == <<"totalAssets", "totalSupply", "rate", "asset", "aToken", "rewardTokens">>

VaultReadStart == [step |-> 1, total_assets |-> 0, total_supply |-> 0]

VaultReadPcs == {"vault_call", "vault_get_block"}

InitVault ==
    /\ head = 0
    /\ now = 0
    /\ blockQ = <<>>
    /\ logQ = <<>>
    /\ blockOpen = "none"
    /\ logOpen = "none"
    /\ nextId = 1
    /\ pc = "vault_run"
    /\ cur = NoItem
    /\ disabled = {}
    /\ blk = None
    /\ state = None
    /\ event = None
    /\ files = <<>>
    /\ taken = <<>>
    /\ finished = <<>>
    /\ failedReads = {}
    /\ cursor = 0
    /\ plog = None
    /\ ptime = 0
    /\ pres = [tag |-> "Idle"]

\* the chain mines a block
VaultMineBlock ==
    /\ pc \notin VaultTerminal
    /\ head < MaxBlock
    /\ head' = head + 1
    /\ UNCHANGED <<logQ, logOpen, nextId, pc, cur, blk, state, taken, finished,
                   failedReads>>
    /\ vaultUnused

\* the subscription yields Ok(log): a log of a mined block (the logs of a
\* subscription are those of imported blocks, so block_number is Some)
VaultEmitLog ==
    /\ pc \notin VaultTerminal
    /\ logOpen = "open"
    /\ nextId <= MaxNotifs
    /\ \E n \in 1 .. head :
         logQ' = Append(logQ, [id |-> nextId, kind |-> "Ok", arg |-> Some(n)])
    /\ nextId' = nextId + 1
    /\ UNCHANGED <<head, logOpen, pc, cur, blk, state, taken, finished, failedReads>>
    /\ vaultUnused

\* the subscription yields an Err item
VaultEmitErr ==
    /\ pc \notin VaultTerminal
    /\ logOpen = "open"
    /\ nextId <= MaxNotifs
    /\ logQ' = Append(logQ, [id |-> nextId, kind |-> "Err", arg |-> None])
    /\ nextId' = nextId + 1
    /\ UNCHANGED <<head, logOpen, pc, cur, blk, state, taken, finished, failedReads>>
    /\ vaultUnused

\* the subscription ends
VaultCloseLogs ==
    /\ pc \notin VaultTerminal
    /\ logOpen = "open"
    /\ logOpen' = "closed"
    /\ UNCHANGED <<head, logQ, nextId, pc, cur, blk, state, taken, finished,
                   failedReads>>
    /\ vaultUnused

\* let initial_state = self.get_vault_state(BlockNumber::Latest).await?  (the call)
VaultInitialState ==
    /\ pc = "vault_run"
    /\ blk' = Some(VaultReadStart)
    /\ pc' = "vault_call"
    /\ UNCHANGED <<head, logQ, logOpen, nextId, cur, state, taken, finished,
                   failedReads>>
    /\ vaultUnused

\* the end of the body of the while loop: back to event_stream.next()
VaultFinish ==
    /\ pc' = "vault_next"
    /\ cur' = NoItem
    /\ blk' = None
    /\ finished' = Append(finished, cur.id)

\* mutant of VaultReadErr: a failed initial read is only reported, as a failed
\* read in the loop is, and run goes on to subscribe
VaultReadErrIgnored ==
    /\ failedReads' = failedReads \cup {cur.id}
    /\ UNCHANGED state
    /\ IF cur.kind = "none"
       THEN pc' = "vault_subscribe" /\ blk' = None /\ UNCHANGED <<cur, finished>>
       ELSE VaultFinish

\* get_vault_state returns Err: the initial read's `?` returns it from run;
\* in the loop `if let Ok(new_state)` does not match and the body ends
VaultReadErr ==
    /\ failedReads' = failedReads \cup {cur.id}
    /\ UNCHANGED state
    /\ IF cur.kind = "none"
       THEN pc' = "returned_err" /\ UNCHANGED <<cur, blk, finished>>
       ELSE VaultFinish

\* get_vault_state returns Ok(state): the initial read goes on to subscribe,
\* the loop prints the state and ends its body
VaultReadOk(new_state) ==
    /\ state' = Some(new_state)
    /\ UNCHANGED failedReads
    /\ IF cur.kind = "none"
       THEN pc' = "vault_subscribe" /\ blk' = None /\ UNCHANGED <<cur, finished>>
       ELSE VaultFinish

\* self.contract.method(name, ())?.call().await?, the six of them in turn; no
\* block is given to call(), so each is evaluated at the latest block
VaultCall ==
    /\ pc = "vault_call"
    /\ \/ /\ pc' = IF Unwrap(blk).step = Len(VaultCalls)
                   THEN "vault_get_block" ELSE "vault_call"
          /\ blk' = Some([step |-> Unwrap(blk).step + 1,
                          total_assets |->
                              IF VaultCalls[Unwrap(blk).step] = "totalAssets"
                              THEN AssetsAt(head) ELSE Unwrap(blk).total_assets,
                          total_supply |->
                              IF VaultCalls[Unwrap(blk).step] = "totalSupply"
                              THEN SupplyAt(head) ELSE Unwrap(blk).total_supply])
          /\ UNCHANGED <<cur, state, finished, failedReads>>
       \/ VaultReadErr
    /\ UNCHANGED <<head, logQ, logOpen, nextId, taken>>
    /\ vaultUnused

\* self.provider.get_block(block).await?.expect("Block not found"), then
\* Ok(VaultState {..}); block is Latest for the initial read
VaultGetBlock ==
    /\ pc = "vault_get_block"
    /\ \/ LET n == IF cur.kind = "none" THEN head ELSE Unwrap(cur.arg) IN
            VaultReadOk([block_number |-> n,
                         timestamp    |-> BlockTimestamp(n),
                         total_assets |-> Unwrap(blk).total_assets,
                         total_supply |-> Unwrap(blk).total_supply])
       \/ /\ pc' = "panicked"     \* Ok(None): expect panics
          /\ UNCHANGED <<cur, blk, state, finished, failedReads>>
       \/ VaultReadErr            \* Err: the request failed
    /\ UNCHANGED <<head, logQ, logOpen, nextId, taken>>
    /\ vaultUnused

\* let mut event_stream = self.provider.subscribe_logs(&filter).await?
VaultSubscribeLogs ==
    /\ pc = "vault_subscribe"
    /\ \/ logOpen' = "open" /\ pc' = "vault_next"
       \/ pc' = "returned_err" /\ UNCHANGED logOpen
    /\ UNCHANGED <<head, logQ, nextId, cur, blk, state, taken, finished, failedReads>>
    /\ vaultUnused

\* while let Some(log) = event_stream.next().await, match log { Ok(log) => ..
\* let block_number = log.block_number.unwrap(), then get_vault_state(block_number)
VaultTakeOk ==
    /\ pc = "vault_next"
    /\ logQ # <<>>
    /\ Head(logQ).kind = "Ok"
    /\ logQ' = Tail(logQ)
    /\ taken' = Append(taken, Head(logQ).id)
    /\ cur' = Head(logQ)
    /\ IF IsSome(Head(logQ).arg)
       THEN pc' = "vault_call" /\ blk' = Some(VaultReadStart)
       ELSE pc' = "panicked" /\ UNCHANGED blk      \* unwrap() on None
    /\ UNCHANGED <<head, logOpen, nextId, state, finished, failedReads>>
    /\ vaultUnused

\* Err(e) => println!("Error processing log: {:?}", e)
VaultTakeErr ==
    /\ pc = "vault_next"
    /\ logQ # <<>>
    /\ Head(logQ).kind = "Err"
    /\ logQ' = Tail(logQ)
    /\ taken' = Append(taken, Head(logQ).id)
    /\ finished' = Append(finished, Head(logQ).id)
    /\ UNCHANGED <<head, logOpen, nextId, pc, cur, blk, state, failedReads>>
    /\ vaultUnused

\* event_stream.next() yields None: the loop ends and run returns Ok(())
VaultStreamEnd ==
    /\ pc = "vault_next"
    /\ logQ = <<>>
    /\ logOpen = "closed"
    /\ pc' = "returned_ok"
    /\ UNCHANGED <<head, logQ, logOpen, nextId, cur, blk, state, taken, finished,
                   failedReads>>
    /\ vaultUnused

VaultEnv == VaultMineBlock \/ VaultEmitLog \/ VaultEmitErr \/ VaultCloseLogs

vault_get_vault_state == VaultCall \/ VaultGetBlock

vault_run ==
    \/ VaultInitialState
    \/ vault_get_vault_state
    \/ VaultSubscribeLogs
    \/ VaultTakeOk
    \/ VaultTakeErr
    \/ VaultStreamEnd

NextVault == VaultEnv \/ vault_run

SpecVault == InitVault /\ [][NextVault]_vars

----------------------------------------------------------------------------
(* Reading the store and the history *)

Range(s) == {s[i] : i \in 1 .. Len(s)}

\* the block_number of a stored VaultState, the transaction_hash of a stored
\* VaultEvent: the third field of either
StoredBlockNumber(contents) == contents[3][2]

StoredTxHash(contents) == contents[3][2]

\* the state files of a store that hold a snapshot of block b
SnapshotsOf(fs, b) ==
    {f \in DOMAIN fs : f[1] = "state" /\ StoredBlockNumber(fs[f]) = b}

\* the event files that hold the event of raw log i
StoredEventsOf(i) ==
    {f \in DOMAIN files :
        /\ f[1] = "event"
        /\ StoredTxHash(files[f]) = FormatDebug(Unwrap(RawLog(i).transaction_hash))}

\* what parse_vault_event makes of raw log i in run
Decoded(i) ==
    parse_vault_event(RawLog(i), BlockTimestamp(Unwrap(RawLog(i).block_number)))

StateReadPcs == {"get_block", "total_assets", "total_supply"}

----------------------------------------------------------------------------
(* The claims *)

\* C1: a raw log that decodes to a vault event leaves exactly one stored
\* event, however often and whenever it is delivered: the store never holds
\* two event files for the same log.
C1_IdempotentEventPersistence ==
    \A i \in LogIds :
        Decoded(i).tag = "OkSome" => Cardinality(StoredEventsOf(i)) <= 1

C3_SequentialCommit ==
    /\ Len(taken) - Len(finished) \in {0, 1}
    /\ finished = SubSeq(taken, 1, Len(finished))
    /\ cur # NoItem => /\ Len(taken) = Len(finished) + 1
                       /\ cur.id = taken[Len(taken)]
    /\ cur = NoItem => Len(taken) = Len(finished)

\* C3 witness: item A was taken and its snapshot or event persisted, and item
\* B, taken after it, is in the middle of its handler.
C3_Witness ==
    /\ Len(taken) = 2
    /\ finished = <<taken[1]>>
    /\ DOMAIN files # {}
    /\ pc \in {"total_supply", "save_event"}

\* C4: a block notification whose number is not above the highest block
\* already processed is discarded: no state read is made for it and no
\* snapshot saved.
C4_StaleBlockDiscarded ==
    pc \in StateReadPcs \cup {"save_state"} => cur.arg > cursor

\* C5: the store holds at most one snapshot per block number, and a
\* save_state never replaces the stored snapshot of another block.
C5_SnapshotsKeyedByBlock ==
    [][/\ \A b \in 1 .. MaxBlock : Cardinality(SnapshotsOf(files', b)) <= 1
       /\ \A f \in DOMAIN files :
            f[1] = "state" =>
                /\ f \in DOMAIN files'
                /\ StoredBlockNumber(files'[f]) = StoredBlockNumber(files[f])]_vars

\* C6: the snapshot get_vault_state produces for block n holds totalAssets,
\* totalSupply and the timestamp as they were at block n.
C6_TornReadFreedom ==
    pc = "save_state" =>
        /\ Unwrap(state).total_assets = AssetsAt(Unwrap(state).block_number)
        /\ Unwrap(state).total_supply = SupplyAt(Unwrap(state).block_number)
        /\ Unwrap(state).timestamp = BlockTimestamp(Unwrap(state).block_number)

\* the log's first topic is the Deposit or the Withdraw signature hash
Matched(log) ==
    /\ log.topics # <<>>
    /\ log.topics[1] \in {keccak256(deposit_sig), keccak256(withdraw_sig)}

\* C7: a raw log with no topics, or whose first topic is neither signature
\* hash, is "not a vault event" (Ok(None)): no error, no panic, whatever its
\* other topics, data and block number are.
C7_SignatureCompleteness ==
    (pres.tag # "Pending" /\ ~Matched(plog)) => pres = OkNone

\* C7 witness: a log whose first topic differs from the Deposit hash in one
\* byte, with four topics, no data and no block number, was parsed.
C7_Witness ==
    /\ pres.tag # "Pending"
    /\ Len(plog.topics) = 4
    /\ plog.topics[1] = [keccak256(deposit_sig) EXCEPT ![32] = 216]
    /\ plog.data = <<>>
    /\ plog.block_number = None

\* the topic count or the data length of a matched log is wrong
Malformed(log) ==
    \/ log.topics[1] = keccak256(deposit_sig) /\ Len(log.topics) < 3
    \/ log.topics[1] = keccak256(withdraw_sig) /\ Len(log.topics) < 4
    \/ Len(log.data) # 64

\* C8: a matched log with too few topics or a data length other than 64
\* bytes yields a decode error, not a panic.
C8_MalformedIsDecodeError ==
    (pres.tag # "Pending" /\ Matched(plog) /\ Malformed(plog)) => pres.tag = "Err"

\* C9: when the log branch of run decodes a log and the decoding fails, the
\* log is skipped and run goes back to the select!: it does not end on it.
C9_DecodeErrorSkipped ==
    [][(/\ pc = "parse"
        /\ parse_vault_event(RawLog(cur.arg), Unwrap(blk).timestamp).tag
              \notin {"OkSome", "OkNone"})
       => pc' \in {"parse", "select"}]_vars

\* C10: once the select! has seen one of the two streams end, run takes no
\* further work item.
C10_ClosureEndsPipeline ==
    [][disabled # {} => pc' \in {"select"} \cup Terminal]_vars

\* C11: a failed save_state or save_event is retried; run does not end on
\* the first failed write of a snapshot or an event.
C11_PersistenceRetried ==
    [][(pc \in {"save_state", "save_event"}) => pc' # "returned_err"]_vars

\* the low 20 bytes of a 32-byte word
Low20(word) == [i \in 1 .. 20 |-> word[12 + i]]

\* the number a big-endian byte string denotes, read from its first byte on
RECURSIVE BigEndianFrom(_, _, _)
BigEndianFrom(bytes, i, acc) ==
    IF i > Len(bytes) THEN acc ELSE BigEndianFrom(bytes, i + 1, 256 * acc + bytes[i])

\* a log of the given signature with at least n topics, 64 data bytes, a
\* block number and a transaction hash
WellFormed(log, sig, n) ==
    /\ log.topics # <<>>
    /\ log.topics[1] = keccak256(sig)
    /\ Len(log.topics) >= n
    /\ Len(log.data) = 64
    /\ IsSome(log.block_number)
    /\ IsSome(log.transaction_hash)

\* C12: a Deposit log with two address topics and two data words (a, s) is
\* decoded to a Deposit event: sender = low 20 bytes of topics[1], owner and
\* receiver = low 20 bytes of topics[2], assets = a, shares = s, the log's
\* block number and transaction hash, the caller's timestamp.
C12_DepositDecoding ==
    (pres.tag # "Pending" /\ WellFormed(plog, deposit_sig, 3)) =>
        /\ pres.tag = "OkSome"
        /\ pres.event =
             [event_type       |-> "Deposit",
              block_number     |-> plog.block_number[2],
              transaction_hash |-> <<"0x", plog.transaction_hash[2]>>,
              sender           |-> Low20(plog.topics[2]),
              receiver         |-> <<"Some", Low20(plog.topics[3])>>,
              owner            |-> <<"Some", Low20(plog.topics[3])>>,
              assets           |-> BigEndianFrom(SubSeq(plog.data, 1, 32), 1, 0),
              shares           |-> BigEndianFrom(SubSeq(plog.data, 33, 64), 1, 0),
              timestamp        |-> ptime]

\* C12 witness: the scenario of the specification, with dirty padding: sender
\* topic 0xAA.., owner topic 0xBB.., data words 100 and 95, decoded.
C12_Witness ==
    /\ pres.tag = "OkSome"
    /\ plog.topics = <<keccak256(deposit_sig), AddressTopic(255, 170),
                       AddressTopic(255, 187)>>
    /\ plog.data = Word32(100) \o Word32(95)
    /\ pres.event.event_type = "Deposit"
    /\ pres.event.sender = Repeat(170, 20)
    /\ pres.event.owner = Some(Repeat(187, 20))
    /\ pres.event.assets = 100
    /\ pres.event.shares = 95

\* the arrival stamps of the notifications a stream still holds
QueuedIds(q) == {q[i].id : i \in 1 .. Len(q)}

\* every notification delivered is in its stream or was taken, and only once
NothingLost ==
    /\ QueuedIds(blockQ) \cup QueuedIds(logQ) \cup Range(taken) = 1 .. (nextId - 1)
    /\ QueuedIds(blockQ) \cap Range(taken) = {}
    /\ QueuedIds(logQ) \cap Range(taken) = {}
    /\ Cardinality(Range(taken)) = Len(taken)
    /\ Len(blockQ) + Len(logQ) + Len(taken) = nextId - 1

\* a step that takes a work item takes the oldest one its stream holds and
\* removes only that one; any other step leaves what the streams hold in place
TakenInArrivalOrder ==
    IF taken' # taken
    THEN \/ /\ blockQ # <<>>
            /\ taken' = Append(taken, Head(blockQ).id)
            /\ cur'.id = Head(blockQ).id
            /\ blockQ' = Tail(blockQ)
            /\ logQ' = logQ
         \/ /\ logQ # <<>>
            /\ taken' = Append(taken, Head(logQ).id)
            /\ cur'.id = Head(logQ).id
            /\ logQ' = Tail(logQ)
            /\ blockQ' = blockQ
    ELSE /\ Len(blockQ') >= Len(blockQ)
         /\ SubSeq(blockQ', 1, Len(blockQ)) = blockQ
         /\ Len(logQ') >= Len(logQ)
         /\ SubSeq(logQ', 1, Len(logQ)) = logQ

\* C13: the merge of the two streams loses nothing and keeps each stream's
\* order: every notification is taken exactly once, the oldest of its stream
\* first; and, the select! being fair, a notification that waits in a stream
\* is taken in the end, unless run has ended before.
C13_MergeLosesNothing ==
    /\ []NothingLost
    /\ [][TakenInArrivalOrder]_vars
    /\ \A id \in 1 .. MaxNotifs :
         (id \in QueuedIds(blockQ) \cup QueuedIds(logQ))
            ~> (id \in Range(taken) \/ pc \in Terminal)

\* C13 witness: a notification that arrived first was overtaken by one of the
\* other stream, waited while that one was handled, and is now being handled.
C13_Witness ==
    /\ Len(taken) = 2
    /\ taken[2] < taken[1]
    /\ finished = <<taken[1]>>
    /\ cur.id = taken[2]
    /\ pc \in {"parse", "total_assets"}


\* C14: a log that decodes to an event of a block above the cursor has, by the
\* time the engine goes back for the next work item, both its event and a
\* snapshot of the vault state at the log's block in the store.
C14_LogTriggersStateRead ==
    [][(pc = "save_event" /\ pc' = "select" /\ Unwrap(event).block_number > cursor)
          => /\ \E f \in DOMAIN files' :
                  f[1] = "event" /\ StoredTxHash(files'[f]) = Unwrap(event).transaction_hash
             /\ SnapshotsOf(files', Unwrap(event).block_number) # {}]_vars


\* C15: run returns an error only from a subscription at startup or from a
\* write to the store; a read of the chain that fails while a notification is
\* handled (the header fetch for a log, the state read for a block) does not
\* end run.
C15_ReadErrorsRecovered ==
    [][(pc' = "returned_err" /\ pc # "returned_err")
          => pc \in {"subscribe_blocks", "subscribe_logs", "save_state", "save_event"}]_vars


\* C16: the decoder indexes the topics by the signature that matched. A
\* Withdraw log with three address topics and two data words is decoded to a
\* Withdraw event: sender, receiver, owner = the low 20 bytes of topics[1],
\* topics[2], topics[3], assets and shares = the first and second data word.
\* A Deposit log with exactly two address topics is decoded, so topics[3],
\* which it does not have, is never read.
C16_BranchOnSignature ==
    (pres.tag # "Pending") =>
        /\ WellFormed(plog, withdraw_sig, 4) =>
             /\ pres.tag = "OkSome"
             /\ pres.event =
                  [event_type       |-> "Withdraw",
                   block_number     |-> plog.block_number[2],
                   transaction_hash |-> <<"0x", plog.transaction_hash[2]>>,
                   sender           |-> Low20(plog.topics[2]),
                   receiver         |-> <<"Some", Low20(plog.topics[3])>>,
                   owner            |-> <<"Some", Low20(plog.topics[4])>>,
                   assets           |-> BigEndianFrom(SubSeq(plog.data, 1, 32), 1, 0),
                   shares           |-> BigEndianFrom(SubSeq(plog.data, 33, 64), 1, 0),
                   timestamp        |-> ptime]
        /\ (WellFormed(plog, deposit_sig, 3) /\ Len(plog.topics) = 3) =>
             /\ pres.tag = "OkSome"
             /\ pres.event.event_type = "Deposit"

\* C16 witness: a Withdraw log with sender 0xAA.., receiver 0xBB.., owner
\* 0xCC.. and the data words 258 and 65535, decoded.
C16_Witness ==
    /\ pres.tag = "OkSome"
    /\ plog.topics = <<keccak256(withdraw_sig), AddressTopic(255, 170),
                       AddressTopic(255, 187), AddressTopic(255, 204)>>
    /\ plog.data = Word32(258) \o Word32(65535)
    /\ pres.event.event_type = "Withdraw"
    /\ pres.event.receiver = Some(Repeat(187, 20))
    /\ pres.event.owner = Some(Repeat(204, 20))
    /\ pres.event.assets = 258
    /\ pres.event.shares = 65535


\* C18: an event that save_event has stored stays in the store: no later
\* step removes its file or replaces the record in it by another event's.
C18_StoredEventKept ==
    [][\A f \in DOMAIN files :
          f[1] = "event" => (f \in DOMAIN files' /\ files'[f] = files[f])]_vars


\* C19: when both streams have ended and hold nothing more, run ends by
\* returning to main: the select! that finds them ended does not panic.
C19_CleanEndOfRun ==
    [][(/\ pc = "select"
        /\ blockOpen = "closed" /\ blockQ = <<>>
        /\ logOpen = "closed" /\ logQ = <<>>) => pc' # "panicked"]_vars


\* C17: in the vault-indexer crate's run the log subscription exists, and a
\* log is taken from it, only after the initial state read at the latest
\* block has returned a state; and when the initial read has failed, run has
\* returned the error with no subscription made and no log taken.
C17_StartupOrdering ==
    /\ (\/ logOpen # "none"
        \/ taken # <<>>
        \/ pc \in {"vault_subscribe", "vault_next", "returned_ok"}) => IsSome(state)
    /\ NoItem.id \in failedReads =>
         /\ pc = "returned_err"
         /\ ~IsSome(state)
         /\ logOpen = "none"
         /\ logQ = <<>>
         /\ taken = <<>>

\* C17 witness: the initial read returned the state of the head it saw, the
\* subscription was made, and the first log is being handled.
C17_Witness ==
    /\ IsSome(state)
    /\ logOpen = "open"
    /\ Len(taken) = 1
    /\ cur.id = taken[1]
    /\ pc = "vault_call"
    /\ failedReads = {}


\* C20: once the vault-indexer crate's run has subscribed, its loop is left
\* only when the log stream has ended, and then run returns Ok(()): the
\* handling of an item, be it an Err item or a log whose state read fails,
\* always comes back to the loop.
C20_LoopEndsOnlyOnStreamEnd ==
    [][(logOpen # "none" /\ pc \in {"vault_next"} \cup VaultReadPcs)
          => \/ pc' \in {"vault_next"} \cup VaultReadPcs
             \/ pc' = "returned_ok" /\ logQ = <<>> /\ logOpen = "closed"]_vars

====
